---- MODULE Spec2Model ----
(***************************************************************************)
(* The two EMR modules of plugins/modules: aws_emr_cluster (present/absent *)
(* reconciliation) and aws_emr_cluster_info (inventory), run against a     *)
(* provider that owns the clusters.  One invocation is one process; each   *)
(* remote call of an invocation is one step.                               *)
(*                                                                         *)
(* Strings that the code inspects character by character (cluster names    *)
(* and name patterns) are sequences of characters.  An optional value      *)
(* (Python None / a missing key / the empty list returned for "no match")  *)
(* is a sequence of length 0 or 1.                                         *)
(***************************************************************************)
EXTENDS Integers, Sequences, FiniteSets, TLC

\* ---------------------------------------------------------------- bounds
NClusters == 2
MaxTime == 2
MaxAttempts == 2

Procs == {"A", "B"}
Ids == 1..NClusters

\* ------------------------------------------------------- lifecycle states
ActiveStates == {"STARTING", "BOOTSTRAPPING", "RUNNING", "WAITING"}

TerminalStates == {"TERMINATING", "TERMINATED", "TERMINATED_WITH_ERRORS"}

ClusterStates == ActiveStates \cup TerminalStates

Names == {<<"a">>, <<"a", "b">>}

Patterns == {<<"a">>, <<"a", ".">>, <<"b">>}

VARIABLES
    clusters,      \* provider: Id -> [Name, State, CreationDateTime]
    mode,          \* which invocations the run holds: "cluster", "modules", "race"
    pc,            \* per invocation: position in the module
    params,        \* per invocation: module.params
    response,      \* per invocation: local `response` (matching ids / detail)
    emr_clusters,  \* per invocation (info): details fetched so far
    attempts,      \* per invocation: polls made by the waiter
    calls,         \* per invocation: remote calls made, in order
    warned,        \* per invocation: module.warn was called
    err,           \* per invocation: exception that ended it ("none" if none)
    output,        \* per invocation: what exit_json received, <<>> if nothing
    detail,        \* per invocation: what _gather_cluster_info returned
    pred,          \* per invocation: the earlier, finished run with the same name
    overlap        \* per invocation: its termination request was issued while
                   \* another invocation stood before its own, for the same cluster

vars == <<clusters, mode, pc, params, response, emr_clusters, attempts, calls,
          warned, err, output, detail, pred, overlap>>

\* --------------------------------------------------------------- provider
\* Detail record of cluster id as the provider holds it now.
Detail(id) ==
    [Id |-> id, Name |-> clusters[id].Name, State |-> clusters[id].State,
     CreationDateTime |-> clusters[id].CreationDateTime]

\* camel_dict_to_snake_dict on one detail record.
Snake(d) ==
    [id |-> d.Id, name |-> d.Name, state |-> d.State,
     creation_date_time |-> d.CreationDateTime]

SnakeAll(ds) == [i \in 1..Len(ds) |-> Snake(ds[i])]

\* The full listing in the provider's order, restricted by the provider-side
\* ClusterStates filter when the filter set holds one.
list_clusters(filters) ==
    LET all == [i \in 1..NClusters |-> i]
        keep(i) == \/ filters.ClusterStates = <<>>
                   \/ clusters[i].State \in filters.ClusterStates[1]
    IN SelectSeq(all, keep)

\* re.compile(pattern).match(name): the pattern must match at the start of
\* the name; "." matches any character.
Match(pattern, name) ==
    /\ Len(pattern) <= Len(name)
    /\ \A i \in 1..Len(pattern) : pattern[i] = "." \/ pattern[i] = name[i]

\* FilterByName with the names compared for equality instead of matched at
\* the start.
FilterByName_equal(listing, pattern) ==
    LET keep(i) == clusters[i].Name = pattern
    IN SelectSeq(listing, keep)

\* [emr for emr in response if re.compile(cluster_name).match(emr['Name'])]
FilterByName(listing, pattern) ==
    LET keep(i) == Match(pattern, clusters[i].Name)
    IN SelectSeq(listing, keep)

\* ----------------------------------------------------------------- inputs
NoFilters == [CreatedAfter |-> <<>>, CreatedBefore |-> <<>>, ClusterStates |-> <<>>]

DateStrings == {"2021-01-02", "02/01/2021"}

WellFormedDate(s) == s = "2021-01-02"

FilterInputs ==
    {NoFilters,
     [NoFilters EXCEPT !.ClusterStates = <<ActiveStates>>]}
    \cup {[NoFilters EXCEPT !.CreatedAfter = <<d>>] : d \in DateStrings}
    \cup {[NoFilters EXCEPT !.CreatedBefore = <<d>>] : d \in DateStrings}

InstancesInputs ==
    {[ec2_key_name |-> "k1", termination_protected |-> FALSE],
     [ec2_key_name |-> "k2", termination_protected |-> TRUE]}

BaseParams ==
    [module |-> "cluster", state |-> "absent", name |-> <<>>, has_name |-> TRUE,
     wait |-> FALSE, wait_max_attempts |-> 1, instances |-> <<>>,
     filters |-> NoFilters, sort_order |-> "descending", check_mode |-> FALSE]

AbsentParams ==
    {[BaseParams EXCEPT !.name = n] : n \in Patterns}
    \cup {[BaseParams EXCEPT !.name = n, !.wait = TRUE, !.wait_max_attempts = a] :
            n \in Patterns, a \in 1..MaxAttempts}

PresentParams ==
    {[BaseParams EXCEPT !.state = "present", !.name = n, !.instances = <<i>>] :
        n \in Patterns, i \in InstancesInputs}

InfoParams ==
    {[BaseParams EXCEPT !.module = "info", !.state = "none", !.name = n,
                        !.filters = f, !.sort_order = s] :
        n \in Patterns, f \in FilterInputs, s \in {"ascending", "descending"}}
    \cup {[BaseParams EXCEPT !.module = "info", !.state = "none", !.has_name = FALSE,
                             !.filters = f, !.sort_order = s] :
        f \in FilterInputs, s \in {"ascending", "descending"}}

\* 'absent' run with --check: the module declares supports_check_mode=True,
\* so it runs as usual with module.check_mode set.
CheckModeParams == {[a EXCEPT !.check_mode = TRUE] : a \in AbsentParams}

\* The invocations a run draws from: of the cluster module, of both modules,
\* or 'absent' without wait.
ParamsOf(m) ==
    CASE m = "cluster" -> AbsentParams \cup PresentParams \cup CheckModeParams
      [] m = "modules" -> AbsentParams \cup PresentParams \cup InfoParams
      [] OTHER -> {a \in AbsentParams : ~a.wait}

\* ------------------------------------------------------------ the AWS SDK
\* Keyword arguments each client operation takes, and those it requires.  The
\* client validates the keywords of a call before anything is sent; a call
\* with an unknown or a missing keyword raises ParamValidationError, which is
\* a BotoCoreError.
OperationInput ==
    [list_clusters |-> {"CreatedAfter", "CreatedBefore", "ClusterStates", "Marker"},
     describe_cluster |-> {"ClusterId"},
     terminate_job_flows |-> {"JobFlowIds"}]

OperationRequired ==
    [list_clusters |-> {},
     describe_cluster |-> {"ClusterId"},
     terminate_job_flows |-> {"JobFlowIds"}]

ParamValidation(op, kwargs) ==
    /\ kwargs \subseteq OperationInput[op]
    /\ OperationRequired[op] \subseteq kwargs

\* The keywords the modules pass.
DescribeKwargs == {"ClusterId"}

TerminateKwargs == {"JobFlowsIds"}

ListKwargs(filters) ==
    {k \in {"CreatedAfter", "CreatedBefore", "ClusterStates"} : filters[k] # <<>>}

\* One entry of an invocation's call log.
Call(op, id, sent) == [op |-> op, id |-> id, sent |-> sent]

\* The cluster_terminated waiter's verdict on one poll: success on TERMINATED,
\* failure on TERMINATED_WITH_ERRORS or on the last attempt, retry otherwise.
WaiterVerdict(state, attempt, max_attempts) ==
    CASE state = "TERMINATED" -> "success"
      [] state = "TERMINATED_WITH_ERRORS" -> "failure"
      [] attempt >= max_attempts -> "failure"
      [] OTHER -> "retry"

\* What terminate_job_flows does to a cluster at the provider.
Terminated(c) ==
    IF c.State \in ActiveStates THEN [c EXCEPT !.State = "TERMINATING"] ELSE c

\* The provider's own lifecycle moves.
NextStates(s) ==
    CASE s = "STARTING" -> {"BOOTSTRAPPING", "TERMINATING"}
      [] s = "BOOTSTRAPPING" -> {"RUNNING", "TERMINATING"}
      [] s = "RUNNING" -> {"WAITING", "TERMINATING"}
      [] s = "WAITING" -> {"RUNNING", "TERMINATING"}
      [] s = "TERMINATING" -> {"TERMINATED", "TERMINATED_WITH_ERRORS"}
      [] OTHER -> {}

\* --------------------------------------------------------- pure functions
\* datetime_strtime handing the value on unparsed.
datetime_strtime_unparsed(value) == [ok |-> TRUE, value |-> value, error |-> "none"]

\* datetime.strtime(value, '%Y-%m-%d') with `import datetime`: the module
\* datetime has no attribute strtime, so the call raises whatever the value.
datetime_strtime(value) == [ok |-> FALSE, value |-> value, error |-> "AttributeError"]

\* IsActive with TERMINATING counted among the active states.
IsActive_not_terminated(state) ==
    state \notin {"TERMINATED", "TERMINATED_WITH_ERRORS"}

\* IsActive under a lock: a cluster another invocation is about to terminate
\* does not count as active.
IsActive_unless_peer(state) ==
    /\ state \in {"STARTING", "BOOTSTRAPPING", "RUNNING", "WAITING"}
    /\ ~\E q \in Procs : pc[q] = "terminate"

\* The state-membership test of ensure_cluster_absent.
IsActive(state) == state \in {"STARTING", "BOOTSTRAPPING", "RUNNING", "WAITING"}

\* `if cluster_name:` of the info module: None and '' are both false.
NameGiven(a) == a.has_name /\ Len(a.name) > 0

\* After with the sort order ignored.
After_ascending(x, y, reverse) == x.CreationDateTime > y.CreationDateTime

\* True when x sorts strictly after y in the requested order.
After(x, y, reverse) ==
    IF reverse THEN x.CreationDateTime < y.CreationDateTime
    ELSE x.CreationDateTime > y.CreationDateTime

\* e inserted behind every element that does not sort strictly after it.
InsertSorted(ds, e, reverse) ==
    LET later == {j \in 1..Len(ds) : After(ds[j], e, reverse)}
        at == IF later = {} THEN Len(ds) + 1
              ELSE CHOOSE j \in later : \A k \in later : j <= k
    IN SubSeq(ds, 1, at - 1) \o <<e>> \o SubSeq(ds, at, Len(ds))

\* list.sort(key=CreationDateTime, reverse=...): stable in both directions.
RECURSIVE SortByCreated(_, _)
SortByCreated(ds, reverse) ==
    IF ds = <<>> THEN <<>>
    ELSE InsertSorted(SortByCreated(SubSeq(ds, 1, Len(ds) - 1), reverse),
                      ds[Len(ds)], reverse)

\* ------------------------------------------------------- ends of a module
\* Fail that records the error and lets the invocation run on.
Fail_and_continue(p, e) ==
    /\ pc' = pc
    /\ err' = [err EXCEPT ![p] = e]
    /\ output' = output

\* module.fail_json_aws / an uncaught exception: the invocation ends, nothing
\* is reported.
Fail(p, e) ==
    /\ pc' = [pc EXCEPT ![p] = "failed"]
    /\ err' = [err EXCEPT ![p] = e]
    /\ output' = output

\* module.exit_json(**out).
Exit(p, out) ==
    /\ pc' = [pc EXCEPT ![p] = "exited"]
    /\ err' = err
    /\ output' = [output EXCEPT ![p] = <<out>>]

Goto(p, label) ==
    /\ pc' = [pc EXCEPT ![p] = label]
    /\ err' = err
    /\ output' = output

Log(p, c) == calls' = [calls EXCEPT ![p] = Append(@, c)]

Finished(q) == pc[q] \in {"exited", "failed"}

\* The earlier, finished 'absent' run with the same name, "none" without one.
Predecessor(p, a) ==
    LET earlier == {q \in Procs \ {p} :
                      /\ Finished(q)
                      /\ params[q].module = "cluster"
                      /\ params[q].state = "absent"
                      /\ params[q].name = a.name}
    IN IF a.module # "cluster" \/ a.state # "absent" \/ earlier = {} THEN "none"
       ELSE CHOOSE q \in earlier : TRUE

\* Another invocation has seen cluster id active and has not yet issued its
\* own termination request.
PeerBeforeTerminate(p, id) ==
    \E q \in Procs \ {p} : pc[q] = "terminate" /\ detail[q][1].Id = id

\* ---------------------------------------------------------------- actions
\* An operator runs a module: AnsibleAWSModule(...), module.client('emr') and
\* the dispatch on `state` (aws_emr_cluster) or the start of main
\* (aws_emr_cluster_info).
Start(p) ==
    /\ pc[p] = "idle"
    /\ \E a \in ParamsOf(mode) :
        /\ params' = [params EXCEPT ![p] = a]
        /\ pred' = [pred EXCEPT ![p] = Predecessor(p, a)]
        /\ pc' = [pc EXCEPT ![p] =
                    CASE a.module = "info" -> "info_main"
                      [] a.state = "present" -> "present"
                      [] OTHER -> "gather"]
    /\ UNCHANGED <<clusters, mode, response, emr_clusters, attempts, calls,
                   warned, err, output, detail, overlap>>

\* ensure_custer_present without the early exit: it goes on to the existence
\* check.
ensure_custer_present_checks(p) ==
    /\ pc[p] = "present"
    /\ Goto(p, "gather")
    /\ UNCHANGED <<clusters, mode, params, response, emr_clusters, attempts,
                   calls, warned, detail, pred, overlap>>

\* ensure_custer_present: module.exit_json(changed=False, **instances) ends
\* the invocation; the statements after it never run.
ensure_custer_present(p) ==
    /\ pc[p] = "present"
    /\ Exit(p, [changed |-> FALSE] @@ params[p].instances[1])
    /\ UNCHANGED <<clusters, mode, params, response, emr_clusters, attempts,
                   calls, warned, detail, pred, overlap>>

\* _gather_cluster_info, first half: the listing and the name filter.  With
\* no match it returns [] and ensure_cluster_absent ends with changed=False.
gather_list(p) ==
    /\ pc[p] = "gather"
    /\ \E fault \in BOOLEAN :
        LET ok == ParamValidation("list_clusters", ListKwargs(NoFilters))
            matches == FilterByName(list_clusters(NoFilters), params[p].name)
        IN /\ Log(p, Call("list_clusters", 0, ok))
           /\ IF ~ok THEN
                 Fail(p, "ParamValidationError") /\ UNCHANGED <<response, warned>>
              ELSE IF fault THEN
                 Fail(p, "ClientError") /\ UNCHANGED <<response, warned>>
              ELSE IF matches # <<>> THEN
                 /\ response' = [response EXCEPT ![p] = matches]
                 /\ warned' = [warned EXCEPT ![p] = Len(matches) > 1]
                 /\ Goto(p, "describe")
              ELSE
                 /\ response' = [response EXCEPT ![p] = matches]
                 /\ warned' = warned
                 /\ Exit(p, [changed |-> FALSE, cluster |-> <<>>])
    /\ UNCHANGED <<clusters, mode, params, emr_clusters, attempts, detail, pred, overlap>>

\* _gather_cluster_info, second half: the detail of the first match; then the
\* state test of ensure_cluster_absent.
gather_describe(p) ==
    /\ pc[p] = "describe"
    /\ \E fault \in BOOLEAN :
        LET id == response[p][1]
            ok == ParamValidation("describe_cluster", DescribeKwargs)
            d == Detail(id)
        IN /\ Log(p, Call("describe_cluster", id, ok))
           /\ IF ~ok THEN
                 Fail(p, "ParamValidationError") /\ detail' = detail
              ELSE IF fault THEN
                 Fail(p, "ClientError") /\ detail' = detail
              ELSE IF IsActive(d.State) THEN
                 /\ detail' = [detail EXCEPT ![p] = <<d>>]
                 /\ Goto(p, "terminate")
              ELSE
                 /\ detail' = [detail EXCEPT ![p] = <<d>>]
                 /\ Exit(p, [changed |-> FALSE, cluster |-> <<Snake(d)>>])
    /\ UNCHANGED <<clusters, mode, params, response, emr_clusters, attempts,
                   warned, pred, overlap>>

\* _terminate_cluster: the termination request, the optional wait (one step
\* per poll of the waiter) and the final detail fetch.
terminate_cluster(p) ==
    /\ pc[p] \in {"terminate", "wait", "refetch"}
    /\ \E fault \in BOOLEAN :
        LET id == detail[p][1].Id IN
        CASE pc[p] = "terminate" ->
               LET ok == ParamValidation("terminate_job_flows", TerminateKwargs)
               IN /\ Log(p, Call("terminate_job_flows", id, ok))
                  /\ attempts' = attempts
                  /\ overlap' = [overlap EXCEPT ![p] = PeerBeforeTerminate(p, id)]
                  /\ IF ~ok THEN
                        Fail(p, "ParamValidationError") /\ clusters' = clusters
                     ELSE IF fault THEN
                        Fail(p, "ClientError") /\ clusters' = clusters
                     ELSE
                        /\ clusters' = [clusters EXCEPT ![id] = Terminated(@)]
                        /\ Goto(p, IF params[p].wait THEN "wait" ELSE "refetch")
          [] pc[p] = "wait" ->
               LET n == attempts[p] + 1
                   verdict == IF fault THEN "failure"
                              ELSE WaiterVerdict(clusters[id].State, n,
                                                 params[p].wait_max_attempts)
               IN /\ Log(p, Call("wait", id, TRUE))
                  /\ attempts' = [attempts EXCEPT ![p] = n]
                  /\ overlap' = overlap
                  /\ clusters' = clusters
                  /\ CASE verdict = "success" -> Goto(p, "refetch")
                       [] verdict = "failure" -> Fail(p, "WaiterError")
                       [] OTHER -> Goto(p, "wait")
          [] OTHER ->
               LET ok == ParamValidation("describe_cluster", DescribeKwargs)
               IN /\ Log(p, Call("describe_cluster", id, ok))
                  /\ attempts' = attempts
                  /\ overlap' = overlap
                  /\ clusters' = clusters
                  /\ IF ~ok THEN Fail(p, "ParamValidationError")
                     ELSE IF fault THEN Fail(p, "ClientError")
                     ELSE Exit(p, [changed |-> TRUE, cluster |-> <<Snake(Detail(id))>>])
    /\ UNCHANGED <<mode, params, response, emr_clusters, warned, detail, pred>>

\* aws_emr_cluster_info main, lines 297-305: the date filters are parsed
\* before any remote call.
info_main(p) ==
    /\ pc[p] = "info_main"
    /\ LET f == params[p].filters
           after == IF f.CreatedAfter = <<>> THEN [ok |-> TRUE, value |-> <<>>]
                    ELSE datetime_strtime(f.CreatedAfter[1])
           before == IF f.CreatedBefore = <<>> THEN [ok |-> TRUE, value |-> <<>>]
                     ELSE datetime_strtime(f.CreatedBefore[1])
       IN IF ~after.ok THEN Fail(p, after.error) /\ params' = params
          ELSE IF ~before.ok THEN Fail(p, before.error) /\ params' = params
          ELSE /\ Goto(p, "info_list")
               /\ params' = params
    /\ UNCHANGED <<clusters, mode, response, emr_clusters, attempts, calls,
                   warned, detail, pred, overlap>>

\* aws_emr_cluster_info main, lines 307-318: the listing and the optional
\* name filter.  With nothing to fetch, the sort and exit_json follow at once.
info_list(p) ==
    /\ pc[p] = "info_list"
    /\ \E fault \in BOOLEAN :
        LET f == params[p].filters
            ok == ParamValidation("list_clusters", ListKwargs(f))
            listing == list_clusters(f)
            kept == IF NameGiven(params[p]) THEN FilterByName(listing, params[p].name)
                    ELSE listing
        IN /\ Log(p, Call("list_clusters", 0, ok))
           /\ IF ~ok THEN
                 Fail(p, "ParamValidationError") /\ response' = response
              ELSE IF fault THEN
                 Fail(p, "ClientError") /\ response' = response
              ELSE IF kept = <<>> THEN
                 /\ response' = [response EXCEPT ![p] = kept]
                 /\ Exit(p, [clusters |-> <<>>])
              ELSE
                 /\ response' = [response EXCEPT ![p] = kept]
                 /\ Goto(p, "info_describe")
    /\ UNCHANGED <<clusters, mode, params, emr_clusters, attempts, warned,
                   detail, pred, overlap>>

\* aws_emr_cluster_info main, lines 320-333: one detail fetch per kept
\* cluster; after the last one the sort and exit_json.
info_describe(p) ==
    /\ pc[p] = "info_describe"
    /\ \E fault \in BOOLEAN :
        LET i == Len(emr_clusters[p]) + 1
            id == response[p][i]
            ok == ParamValidation("describe_cluster", DescribeKwargs)
            got == Append(emr_clusters[p], Detail(id))
            reverse == params[p].sort_order = "descending"
        IN /\ Log(p, Call("describe_cluster", id, ok))
           /\ IF ~ok THEN
                 Fail(p, "ParamValidationError") /\ emr_clusters' = emr_clusters
              ELSE IF fault THEN
                 Fail(p, "ClientError") /\ emr_clusters' = emr_clusters
              ELSE IF i < Len(response[p]) THEN
                 /\ emr_clusters' = [emr_clusters EXCEPT ![p] = got]
                 /\ Goto(p, "info_describe")
              ELSE
                 /\ emr_clusters' = [emr_clusters EXCEPT ![p] = got]
                 /\ Exit(p, [clusters |-> SnakeAll(SortByCreated(got, reverse))])
    /\ UNCHANGED <<clusters, mode, params, response, attempts, warned, detail, pred, overlap>>

\* The provider moves a cluster along its lifecycle on its own.
ProviderStep ==
    /\ \E id \in Ids : \E s \in NextStates(clusters[id].State) :
        clusters' = [clusters EXCEPT ![id].State = s]
    /\ UNCHANGED <<mode, pc, params, response, emr_clusters, attempts, calls,
                   warned, err, output, detail, pred, overlap>>

\* ---------------------------------------------------------- specifications
InitLocals ==
    /\ params = [p \in Procs |-> BaseParams]
    /\ response = [p \in Procs |-> <<>>]
    /\ emr_clusters = [p \in Procs |-> <<>>]
    /\ attempts = [p \in Procs |-> 0]
    /\ calls = [p \in Procs |-> <<>>]
    /\ warned = [p \in Procs |-> FALSE]
    /\ err = [p \in Procs |-> "none"]
    /\ output = [p \in Procs |-> <<>>]
    /\ detail = [p \in Procs |-> <<>>]
    /\ pred = [p \in Procs |-> "none"]
    /\ overlap = [p \in Procs |-> FALSE]

\* One invocation of the cluster module against a provider whose clusters are
\* in any lifecycle state and move on their own.  The module never reads the
\* creation time, which is the same for all clusters here.
Init ==
    /\ clusters \in [Ids -> [Name : Names, State : ClusterStates,
                             CreationDateTime : {1}]]
    /\ mode = "cluster"
    /\ pc = [p \in Procs |-> IF p = "A" THEN "idle" ELSE "off"]
    /\ InitLocals

Next ==
    \/ \E p \in Procs : Start(p)
    \/ \E p \in Procs : ensure_custer_present(p)
    \/ \E p \in Procs : gather_list(p)
    \/ \E p \in Procs : gather_describe(p)
    \/ \E p \in Procs : terminate_cluster(p)
    \/ ProviderStep

Spec == Init /\ [][Next]_vars

\* One invocation of either module against a provider at rest, whose clusters
\* have any creation times and are running, terminating or terminated.
RestStates == {"RUNNING", "TERMINATING", "TERMINATED"}

InitModules ==
    /\ clusters \in [Ids -> [Name : Names, State : RestStates,
                             CreationDateTime : 1..MaxTime]]
    /\ mode = "modules"
    /\ pc = [p \in Procs |-> IF p = "A" THEN "idle" ELSE "off"]
    /\ InitLocals

NextModules ==
    \/ \E p \in Procs : Start(p)
    \/ \E p \in Procs : ensure_custer_present(p)
    \/ \E p \in Procs : gather_list(p)
    \/ \E p \in Procs : gather_describe(p)
    \/ \E p \in Procs : terminate_cluster(p)
    \/ \E p \in Procs : info_main(p)
    \/ \E p \in Procs : info_list(p)
    \/ \E p \in Procs : info_describe(p)

SpecModules == InitModules /\ [][NextModules]_vars

\* Two 'absent' invocations without wait, concurrent or one after the other,
\* against the provider of Spec.
InitRace ==
    /\ clusters \in [Ids -> [Name : Names, State : ClusterStates,
                             CreationDateTime : {1}]]
    /\ mode = "race"
    /\ pc = [p \in Procs |-> "idle"]
    /\ InitLocals

NextRace ==
    \/ \E p \in Procs : Start(p)
    \/ \E p \in Procs : gather_list(p)
    \/ \E p \in Procs : gather_describe(p)
    \/ \E p \in Procs : terminate_cluster(p)
    \/ ProviderStep

SpecRace == InitRace /\ [][NextRace]_vars

\* ------------------------------------------------------------------ claims
Started(p) == pc[p] \notin {"idle", "off"}

IsAbsentRun(p) ==
    Started(p) /\ params[p].module = "cluster" /\ params[p].state = "absent"

IsPresentRun(p) ==
    Started(p) /\ params[p].module = "cluster" /\ params[p].state = "present"

IsInfoRun(p) == Started(p) /\ params[p].module = "info"

Out(p) == output[p][1]

Ops(p) == [i \in 1..Len(calls[p]) |-> calls[p][i].op]

HasCall(p, op) == \E i \in 1..Len(calls[p]) : calls[p][i].op = op

\* The clusters whose name the pattern matches at its start.
MatchingIds(pattern) == {i \in Ids : Match(pattern, clusters[i].Name)}

FirstOf(S) == CHOOSE i \in S : \A j \in S : i <= j

\* The invocation found a match in an active state.
SawActive(p) == detail[p] # <<>> /\ detail[p][1].State \in ActiveStates

\* The invocation found a match that is terminating or terminated.
SawTerminal(p) == detail[p] # <<>> /\ detail[p][1].State \in TerminalStates

\* C1: an 'absent' invocation without wait that finds its match in an active
\* state and meets no provider error issues exactly one termination request
\* for that cluster, fetches its detail once more and reports changed=true
\* with that detail.
C1_AbsentTerminatesActive ==
    \A p \in Procs :
        (/\ IsAbsentRun(p) /\ Finished(p) /\ ~params[p].wait
         /\ SawActive(p) /\ err[p] # "ClientError")
        => /\ pc[p] = "exited"
           /\ Out(p).changed
           /\ LET id == detail[p][1].Id
              IN /\ calls[p] = <<Call("list_clusters", 0, TRUE),
                                 Call("describe_cluster", id, TRUE),
                                 Call("terminate_job_flows", id, TRUE),
                                 Call("describe_cluster", id, TRUE)>>
                 /\ Len(Out(p).cluster) = 1
                 /\ Out(p).cluster[1].id = id

\* The state C1 is about: the invocation has ended after finding an active
\* match, with wait disabled.
C1_Reached ==
    \E p \in Procs :
        /\ IsAbsentRun(p) /\ Finished(p) /\ ~params[p].wait
        /\ SawActive(p) /\ err[p] = "ParamValidationError"
        /\ Ops(p) = <<"list_clusters", "describe_cluster", "terminate_job_flows">>

\* C2, state part: an 'absent' invocation whose listing shows no matching
\* name ends with changed=false and an empty result after the listing alone;
\* one whose match is TERMINATING, TERMINATED or TERMINATED_WITH_ERRORS ends
\* with changed=false and the detail it found, after the listing and one
\* detail fetch; neither issues a termination request or a wait.
C2_NoOp ==
    \A p \in Procs :
        /\ (/\ IsAbsentRun(p) /\ MatchingIds(params[p].name) = {}
            /\ calls[p] # <<>> /\ err[p] = "none")
           => /\ pc[p] = "exited"
              /\ output[p] = <<[changed |-> FALSE, cluster |-> <<>>]>>
              /\ Ops(p) = <<"list_clusters">>
        /\ (IsAbsentRun(p) /\ SawTerminal(p))
           => /\ pc[p] = "exited"
              /\ output[p] = <<[changed |-> FALSE,
                                cluster |-> <<Snake(detail[p][1])>>]>>
              /\ Ops(p) = <<"list_clusters", "describe_cluster">>

\* C2, frame part: a step of an 'absent' invocation that has had no
\* termination request accepted leaves the provider's clusters as they were.
C2_Frame ==
    \A p \in Procs :
        (/\ pc'[p] # pc[p]
         /\ params'[p].module = "cluster" /\ params'[p].state = "absent"
         /\ ~\E i \in 1..Len(calls'[p]) :
                calls'[p][i].op = "terminate_job_flows" /\ calls'[p][i].sent)
        => clusters' = clusters

\* C2: the no-op outcomes of 'absent' (no match; match already terminating or
\* terminated) report changed=false, issue no termination request and no
\* wait, and leave the provider's cluster state unchanged.
C2_AbsentNoOp == [] C2_NoOp /\ [][C2_Frame]_vars

C2_Reached ==
    \E p \in Procs :
        /\ IsAbsentRun(p) /\ SawTerminal(p) /\ pc[p] = "exited"
        /\ ~Out(p).changed
        /\ detail[p][1].State = "TERMINATING"

\* C3: an 'absent' invocation with wait that finds its match in an active
\* state and meets no provider error either reports changed=true with the
\* TERMINATED detail of the final fetch, or fails on the waiter with the final
\* fetch not made and nothing reported.
C3_AbsentWaits ==
    \A p \in Procs :
        (/\ IsAbsentRun(p) /\ Finished(p) /\ params[p].wait
         /\ SawActive(p) /\ err[p] # "ClientError")
        => \/ /\ pc[p] = "exited"
              /\ Out(p).changed
              /\ Out(p).cluster[1].state = "TERMINATED"
              /\ calls[p][Len(calls[p])].op = "describe_cluster"
              /\ attempts[p] \in 1..params[p].wait_max_attempts
           \/ /\ pc[p] = "failed"
              /\ err[p] = "WaiterError"
              /\ output[p] = <<>>
              /\ calls[p][Len(calls[p])].op = "wait"

\* The state C3 is about: the invocation has ended after finding an active
\* match, with wait enabled.
C3_Reached ==
    \E p \in Procs :
        /\ IsAbsentRun(p) /\ Finished(p) /\ params[p].wait
        /\ SawActive(p) /\ err[p] = "ParamValidationError"
        /\ attempts[p] = 0

\* C4: _gather_cluster_info, once its listing has succeeded: with no matching
\* name the result is empty, no detail is fetched and no warning raised; with
\* matches, a warning is raised exactly when there is more than one, the one
\* detail fetch is for the first match in listing order, and the result is
\* that cluster's detail.
C4_ClusterFinder ==
    \A p \in Procs :
        LET S == MatchingIds(params[p].name)
            listed == /\ IsAbsentRun(p) /\ calls[p] # <<>>
                      /\ ~(Len(calls[p]) = 1 /\ pc[p] = "failed")
            fetched == pc[p] \in {"terminate", "wait", "refetch"} \/ detail[p] # <<>>
        IN listed =>
            /\ S = {} => /\ pc[p] = "exited"
                         /\ detail[p] = <<>>
                         /\ Out(p).cluster = <<>>
                         /\ ~warned[p]
                         /\ ~HasCall(p, "describe_cluster")
            /\ S # {} => /\ warned[p] = (Cardinality(S) > 1)
                         /\ pc[p] = "describe" => Len(calls[p]) = 1
                         /\ pc[p] # "describe" =>
                                calls[p][2] = Call("describe_cluster", FirstOf(S), TRUE)
                         /\ fetched =>
                              /\ detail[p] # <<>>
                              /\ detail[p][1].Id = FirstOf(S)
                              /\ detail[p][1].Name = clusters[FirstOf(S)].Name
                              /\ detail[p][1].CreationDateTime =
                                     clusters[FirstOf(S)].CreationDateTime
                         /\ (fetched /\ Len(calls[p]) = 2) =>
                                pc[p] \in {"terminate", "exited"}

\* Two names match, the warning was raised and the first one's detail returned.
C4_Reached ==
    \E p \in Procs :
        /\ IsAbsentRun(p) /\ Cardinality(MatchingIds(params[p].name)) > 1
        /\ warned[p] /\ detail[p] # <<>> /\ detail[p][1].Id = 1
        /\ clusters[1].Name = <<"a", "b">> /\ params[p].name = <<"a">>

\* C5: a 'present' invocation, once past ensure_custer_present, has exited
\* with changed=false and the instances values echoed, and has made no remote
\* call: it never reaches the existence check or the creation path.
C5_PresentShortCircuit ==
    \A p \in Procs :
        (IsPresentRun(p) /\ pc[p] # "present")
        => /\ pc[p] = "exited"
           /\ calls[p] = <<>>
           /\ DOMAIN Out(p) = {"changed"} \cup DOMAIN params[p].instances[1]
           /\ Out(p).changed = FALSE
           /\ \A k \in DOMAIN params[p].instances[1] :
                Out(p)[k] = params[p].instances[1][k]
           /\ detail[p] = <<>>

\* A 'present' invocation has exited although no cluster matches its name.
C5_Reached ==
    \E p \in Procs :
        /\ IsPresentRun(p) /\ pc[p] = "exited"
        /\ MatchingIds(params[p].name) = {}
        /\ Out(p).ec2_key_name = "k2"

\* The clusters an info invocation's name pattern lets through.
Wanted(p) ==
    IF NameGiven(params[p]) THEN MatchingIds(params[p].name) ELSE Ids

MalformedDate(v) == v # <<>> /\ ~WellFormedDate(v[1])

\* C6: the inventory of an info invocation that has exited holds one record
\* per cluster, none twice, only for clusters the name pattern lets through
\* and, without a provider-side state filter, for every one of them; the
\* records are in non-increasing creation time when sort_order is descending
\* and in non-decreasing creation time when ascending; an invocation whose
\* listing succeeded and let nothing through has exited with an empty
\* inventory.
C6_Inventory ==
    \A p \in Procs :
        /\ (IsInfoRun(p) /\ pc[p] = "exited") =>
            LET out == Out(p).clusters
                ids == {out[i].id : i \in 1..Len(out)}
            IN /\ Cardinality(ids) = Len(out)
               /\ ids \subseteq Wanted(p)
               /\ params[p].filters.ClusterStates = <<>> => ids = Wanted(p)
               /\ \A i \in 1..Len(out) :
                    /\ out[i].name = clusters[out[i].id].Name
                    /\ out[i].creation_date_time =
                           clusters[out[i].id].CreationDateTime
               /\ \A i, j \in 1..Len(out) :
                    i < j =>
                      IF params[p].sort_order = "descending"
                      THEN out[i].creation_date_time >= out[j].creation_date_time
                      ELSE out[i].creation_date_time <= out[j].creation_date_time
        /\ (IsInfoRun(p) /\ calls[p] # <<>> /\ err[p] = "none" /\ Wanted(p) = {}) =>
            /\ pc[p] = "exited"
            /\ Out(p).clusters = <<>>

\* A descending inventory of two clusters that the provider listed oldest
\* first.
C6_Reached ==
    \E p \in Procs :
        /\ IsInfoRun(p) /\ pc[p] = "exited"
        /\ params[p].sort_order = "descending"
        /\ Len(Out(p).clusters) = 2
        /\ Out(p).clusters[1].id = 2
        /\ Out(p).clusters[1].creation_date_time > Out(p).clusters[2].creation_date_time

\* C7: an info invocation whose filters hold a malformed CreatedAfter or
\* CreatedBefore makes no remote call and reports nothing: it is still before
\* the date parsing, or it has failed there.
C7_MalformedDateFails ==
    \A p \in Procs :
        (/\ IsInfoRun(p)
         /\ \/ MalformedDate(params[p].filters.CreatedAfter)
            \/ MalformedDate(params[p].filters.CreatedBefore))
        => /\ pc[p] \in {"info_main", "failed"}
           /\ calls[p] = <<>>
           /\ output[p] = <<>>

C7_Reached ==
    \E p \in Procs :
        /\ IsInfoRun(p) /\ pc[p] = "failed"
        /\ MalformedDate(params[p].filters.CreatedBefore)
        /\ calls[p] = <<>>

\* C8, state part: an invocation that met an error has failed and has
\* reported nothing.
C8_Failed ==
    \A p \in Procs : err[p] # "none" => pc[p] = "failed" /\ output[p] = <<>>

\* C8, step part: after the error no further remote call is made and nothing
\* is reported.
C8_NoLaterCall ==
    \A p \in Procs :
        err[p] # "none" => calls'[p] = calls[p] /\ output'[p] = <<>>

\* C8: an error in a remote call ends the invocation at that call: no later
\* call, no success payload, no partial inventory.
C8_ErrorsAbort == [] C8_Failed /\ [][C8_NoLaterCall]_vars

\* An info invocation failed on the detail fetch of its second cluster.
C8_Reached ==
    \E p \in Procs :
        /\ IsInfoRun(p) /\ pc[p] = "failed" /\ err[p] = "ClientError"
        /\ Len(emr_clusters[p]) = 1
        /\ Ops(p) = <<"list_clusters", "describe_cluster", "describe_cluster">>
        /\ output[p] = <<>>

\* C9: nothing excludes one 'absent' invocation from another: every
\* invocation that has found its match active stands before its termination
\* request or has issued it for that cluster, whatever the other has done.
C9_NoMutualExclusion ==
    \A p \in Procs :
        (IsAbsentRun(p) /\ SawActive(p))
        => \/ pc[p] = "terminate"
           \/ \E i \in 1..Len(calls[p]) :
                /\ calls[p][i].op = "terminate_job_flows"
                /\ calls[p][i].id = detail[p][1].Id

\* Both invocations saw the same cluster active before either issued its
\* termination request, and both have issued one for it.
C9_Reached ==
    \E p, q \in Procs :
        /\ p # q /\ IsAbsentRun(p) /\ IsAbsentRun(q)
        /\ params[p].name = params[q].name
        /\ overlap[p]
        /\ SawActive(p) /\ SawActive(q)
        /\ detail[p][1].Id = detail[q][1].Id
        /\ \E i \in 1..Len(calls[p]) :
             calls[p][i] = Call("terminate_job_flows", detail[p][1].Id, FALSE)
        /\ \E i \in 1..Len(calls[q]) :
             calls[q][i] = Call("terminate_job_flows", detail[p][1].Id, FALSE)

C11_CheckModeNoTerminate ==
    \A p \in Procs :
        (IsAbsentRun(p) /\ params[p].check_mode /\ SawActive(p))
        => /\ pc[p] # "terminate"
           /\ ~HasCall(p, "terminate_job_flows")

\* The state C11 is about: a check-mode run has called terminate_job_flows
\* for the active cluster it found.
C11_Reached ==
    \E p \in Procs :
        /\ IsAbsentRun(p) /\ params[p].check_mode /\ SawActive(p)
        /\ Finished(p)
        /\ calls[p][Len(calls[p])] =
               Call("terminate_job_flows", detail[p][1].Id, FALSE)

====
